---- MODULE Spec2Model ----
(***************************************************************************)
(* A model of tinydb (src/lib.rs): the Database<T> table, its in-memory    *)
(* operations add_item / remove_item / query_item on a HashSet<T>, and its *)
(* persistence operations dump_db / load_db on the file at save_path.      *)
(*                                                                         *)
(* T is any type with Hash + Eq.  A value of T is modelled as a record     *)
(* [key, data] whose equality (T_eq) compares the key only: the most       *)
(* general Eq the bound `T: hash::Hash + Eq` admits, so that "equal" and   *)
(* "identical" are different things.                                       *)
(***************************************************************************)
EXTENDS Integers, Sequences, FiniteSets, TLC

\* ---------------------------------------------------------------- bounds
\* Number of distinct keys (equality classes) of T.
NumKeys == 2

Keys   == 1..NumKeys
\* The values of the fields of T that its equality ignores.
Datas  == {16, 33}
\* The values of the record type T.
T      == [key : Keys, data : Datas]

\* Labels a host gives a table, and the explicit save paths it may configure.
Labels == {"Adding test", "Other"}
Paths  == {"db/test.tinydb"}

\* The file `[label].tinydb` the doc comments of dump_db / load_db speak of.
DefaultPath(l) == IF l = "Adding test" THEN "Adding test.tinydb" ELSE "Other.tinydb"

\* Every path of the modelled file system.
AllPaths == Paths \cup {DefaultPath(l) : l \in Labels}

\* Heap addresses the allocator may hand out for the HashSet's table;
\* StaticEmpty is where a never-allocated table points.
StaticEmpty == 0
Addrs == {16}

\* What a read of the struct's padding bytes may yield.
PadBytes == {0, 255}

\* DatabaseError kinds, plus the other outcomes of a call.
DatabaseError == {"ItemNotFound", "DupeFound", "SavePathRequired", "IOError"}

\* The system call of dump_db that the environment makes fail, if any.
IOFaults == {"none", "remove_file", "create", "write_all"}

VARIABLES
    label,          \* Database::label
    save_path,      \* Database::save_path : Option<PathBuf>, {} is None, {p} is Some(p)
    strict_dupes,   \* Database::strict_dupes
    items,          \* Database::items : the values held by the HashSet<T>
    items_ptr,      \* the heap address of the HashSet's table
    fs,             \* the file system: for each path, whether a file exists and its bytes
    lastOp,         \* the operation that ran last
    arg,            \* its `item` argument, {} when it takes none
    result,         \* what it returned: "Ok", a DatabaseError, "Some"/"None", or "Panic"
    queried,        \* the Option<&T> query_item returned, {} is None
    dumped,         \* history: for each path, the collection the complete dump in
                    \* its file was taken from, {} when the file is no complete dump
    twin            \* a second table, with strict_dupes false, that is given the
                    \* same add_item / remove_item calls: its items and its result

vars == <<label, save_path, strict_dupes, items, items_ptr, fs, lastOp, arg, result,
          queried, dumped, twin>>

\* ------------------------------------------------------------ HashSet<T>
\* T's Eq.
T_eq(a, b) == a.key = b.key

\* HashSet::contains
contains(s, item) == \E r \in s : T_eq(r, item)

\* insert without the lookup: the value goes in beside an equal one.
insert_beside(s, item) == s \cup {item}

\* insert that puts the new value in the place of an equal stored one.
insert_replace(s, item) == {r \in s : ~T_eq(r, item)} \cup {item}

\* HashSet::insert: a value equal to one in the set is not inserted, and the
\* one in the set stays.
insert(s, item) == IF contains(s, item) THEN s ELSE s \cup {item}

\* remove that compares whole values instead of using T's Eq.
remove_identical(s, item) == [set |-> s \ {item}, found |-> contains(s, item)]

\* HashSet::remove: takes out the value equal to item; the Boolean result is
\* whether one was there.
remove(s, item) == [set |-> {r \in s : ~T_eq(r, item)}, found |-> contains(s, item)]

\* HashSet::get
get(s, item) == {r \in s : T_eq(r, item)}

\* ------------------------------------------------------------ file system
NoFile == [exists |-> FALSE, bytes |-> <<>>]

\* Path::exists
exists(fsys, p) == fsys[p].exists

\* std::fs::remove_file, when it succeeds
remove_file(fsys, p) == [fsys EXCEPT ![p] = NoFile]

\* File::create, when it succeeds: an empty file, truncating any there is
File_create(fsys, p) == [fsys EXCEPT ![p] = [exists |-> TRUE, bytes |-> <<>>]]

\* Write::write_all of the first n words of buf (all of them when it succeeds)
write_all(fsys, p, buf, n) ==
    [fsys EXCEPT ![p] = [exists |-> TRUE, bytes |-> fsys[p].bytes \o SubSeq(buf, 1, n)]]

\* ------------------------------------------------------------ helpers
\* io_to_dberror: Ok stays Ok, an io::Error becomes IOError
io_to_dberror(failed) == IF failed THEN "IOError" ELSE "Ok"

\* path_to_dberror: None is SavePathRequired, Some(x) is Ok(x)
path_to_dberror(path) == IF path = {} THEN "SavePathRequired" ELSE "Ok"

\* any_as_u8_slice(self): the size_of::<Database<T>>() bytes of the struct
\* itself, read word by word: the bool strict_dupes, the padding after it, and
\* the HashSet's table pointer and item count.  (The words of label and
\* save_path are a pointer, a capacity and a length each and are left out.)
\* None of the records is in it: they live behind the table pointer.
any_as_u8_slice(sd, ptr, n, pad) ==
    << IF sd THEN 1 ELSE 0, pad, ptr, n >>

\* open_db_path: the file system it leaves and what it returns
open_db_path(fsys, sp, io) ==
    IF path_to_dberror(sp) # "Ok"
    THEN [fs |-> fsys, res |-> path_to_dberror(sp)]
    ELSE LET definate_path == CHOOSE p \in sp : TRUE
             rmFails  == exists(fsys, definate_path) /\ io = "remove_file"
             afterRm  == IF exists(fsys, definate_path)
                         THEN remove_file(fsys, definate_path) ELSE fsys
         IN  IF io_to_dberror(rmFails) # "Ok"
             THEN [fs |-> fsys, res |-> io_to_dberror(rmFails)]
             ELSE IF io_to_dberror(io = "create") # "Ok"
                  THEN [fs |-> afterRm, res |-> io_to_dberror(io = "create")]
                  ELSE [fs |-> File_create(afterRm, definate_path), res |-> "Ok"]

\* ------------------------------------------------------------ operations
TypeOK ==
    /\ label \in Labels
    /\ save_path \subseteq Paths
    /\ strict_dupes \in BOOLEAN
    /\ items \subseteq T
    /\ items_ptr \in {StaticEmpty} \cup Addrs
    /\ arg \subseteq T
    /\ queried \subseteq T
    /\ result \in {"Ok", "Some", "None", "Panic"} \cup DatabaseError

Init ==
    /\ label \in Labels
    /\ save_path \in {{}} \cup {{p} : p \in Paths}
    /\ strict_dupes \in BOOLEAN
    /\ items = {}
    /\ items_ptr = StaticEmpty
    /\ fs = [p \in AllPaths |-> NoFile]
    /\ lastOp = "new"
    /\ arg = {}
    /\ result = "Ok"
    /\ queried = {}
    /\ dumped = [p \in Paths |-> {}]
    /\ twin = [items |-> {}, result |-> "Ok"]

\* A panic unwinds the calling thread: nothing runs after it.
Running == result # "Panic"

\* Database::new: a fresh, empty table; the files stay what they are.
Database_new(l, sp, sd) ==
    /\ Running
    /\ label' = l
    /\ save_path' = sp
    /\ strict_dupes' = sd
    /\ items' = {}
    /\ items_ptr' = StaticEmpty
    /\ lastOp' = "new"
    /\ arg' = {}
    /\ result' = "Ok"
    /\ queried' = {}
    /\ UNCHANGED fs

\* The host writes the pub field label.
set_label(l) ==
    /\ Running
    /\ l # label
    /\ label' = l
    /\ lastOp' = "set_label"
    /\ arg' = {}
    /\ result' = "Ok"
    /\ queried' = {}
    /\ UNCHANGED <<save_path, strict_dupes, items, items_ptr, fs>>

\* The host writes the pub field save_path.
set_save_path(sp) ==
    /\ Running
    /\ sp # save_path
    /\ save_path' = sp
    /\ lastOp' = "set_save_path"
    /\ arg' = {}
    /\ result' = "Ok"
    /\ queried' = {}
    /\ UNCHANGED <<label, strict_dupes, items, items_ptr, fs>>

\* The host writes the pub field strict_dupes.
set_strict_dupes(sd) ==
    /\ Running
    /\ sd # strict_dupes
    /\ strict_dupes' = sd
    /\ lastOp' = "set_strict_dupes"
    /\ arg' = {}
    /\ result' = "Ok"
    /\ queried' = {}
    /\ UNCHANGED <<label, save_path, items, items_ptr, fs>>

\* add_item without the strict_dupes test.
add_item_unchecked(item) ==
    /\ Running
    /\ lastOp' = "add_item"
    /\ arg' = {item}
    /\ queried' = {}
    /\ items' = insert(items, item)
    /\ result' = "Ok"
    /\ IF contains(items, item) THEN items_ptr' = items_ptr ELSE items_ptr' \in Addrs
    /\ UNCHANGED <<label, save_path, strict_dupes, fs>>

\* add_item with the test for a stored equal record inverted.
add_item_inverted(item) ==
    /\ Running
    /\ lastOp' = "add_item"
    /\ arg' = {item}
    /\ queried' = {}
    /\ IF strict_dupes /\ ~contains(items, item)
       THEN /\ result' = "DupeFound"
            /\ UNCHANGED <<items, items_ptr>>
       ELSE /\ items' = insert(items, item)
            /\ result' = "Ok"
            /\ IF contains(items, item)
               THEN items_ptr' = items_ptr
               ELSE items_ptr' \in Addrs
    /\ UNCHANGED <<label, save_path, strict_dupes, fs>>

\* add_item that saves the table to save_path after the insert.
add_item_autosave(item) ==
    /\ Running
    /\ lastOp' = "add_item"
    /\ arg' = {item}
    /\ queried' = {}
    /\ IF strict_dupes /\ contains(items, item)
       THEN /\ result' = "DupeFound"
            /\ UNCHANGED <<items, items_ptr, fs>>
       ELSE /\ items' = insert(items, item)
            /\ result' = "Ok"
            /\ IF contains(items, item)
               THEN items_ptr' = items_ptr
               ELSE items_ptr' \in Addrs
            /\ fs' = [p \in AllPaths |->
                         IF p \in save_path
                         THEN [exists |-> TRUE,
                               bytes |-> any_as_u8_slice(strict_dupes, items_ptr',
                                                         Cardinality(items'), 0)]
                         ELSE fs[p]]
    /\ UNCHANGED <<label, save_path, strict_dupes>>

\* add_item that refuses a duplicate whatever strict_dupes is.
add_item_always_strict(item) ==
    /\ Running
    /\ lastOp' = "add_item"
    /\ arg' = {item}
    /\ queried' = {}
    /\ IF contains(items, item)
       THEN /\ result' = "DupeFound"
            /\ UNCHANGED <<items, items_ptr>>
       ELSE /\ items' = insert(items, item)
            /\ result' = "Ok"
            /\ items_ptr' \in Addrs
    /\ UNCHANGED <<label, save_path, strict_dupes, fs>>

\* Database::add_item
add_item(item) ==
    /\ Running
    /\ lastOp' = "add_item"
    /\ arg' = {item}
    /\ queried' = {}
    /\ IF strict_dupes /\ contains(items, item)
       THEN /\ result' = "DupeFound"
            /\ UNCHANGED <<items, items_ptr>>
       ELSE /\ items' = insert(items, item)
            /\ result' = "Ok"
            \* a value that goes in may make the table allocate or grow
            /\ IF contains(items, item)
               THEN items_ptr' = items_ptr
               ELSE items_ptr' \in Addrs
    /\ UNCHANGED <<label, save_path, strict_dupes, fs>>

\* remove_item with the two arms of its if swapped.
remove_item_swapped(item) ==
    /\ Running
    /\ lastOp' = "remove_item"
    /\ arg' = {item}
    /\ queried' = {}
    /\ items' = remove(items, item).set
    /\ result' = IF remove(items, item).found THEN "ItemNotFound" ELSE "Ok"
    /\ UNCHANGED <<label, save_path, strict_dupes, items_ptr, fs>>

\* Database::remove_item
remove_item(item) ==
    /\ Running
    /\ lastOp' = "remove_item"
    /\ arg' = {item}
    /\ queried' = {}
    /\ items' = remove(items, item).set
    /\ result' = IF remove(items, item).found THEN "Ok" ELSE "ItemNotFound"
    /\ UNCHANGED <<label, save_path, strict_dupes, items_ptr, fs>>

\* query_item that hands back its argument instead of the stored instance.
query_item_echo(item) ==
    /\ Running
    /\ lastOp' = "query_item"
    /\ arg' = {item}
    /\ queried' = IF contains(items, item) THEN {item} ELSE {}
    /\ result' = IF contains(items, item) THEN "Some" ELSE "None"
    /\ UNCHANGED <<label, save_path, strict_dupes, items, items_ptr, fs>>

\* Database::query_item
query_item(item) ==
    /\ Running
    /\ lastOp' = "query_item"
    /\ arg' = {item}
    /\ queried' = get(items, item)
    /\ result' = IF get(items, item) = {} THEN "None" ELSE "Some"
    /\ UNCHANGED <<label, save_path, strict_dupes, items, items_ptr, fs>>

\* Database::load_db: unimplemented!() panics, whatever the state.
load_db ==
    /\ Running
    /\ lastOp' = "load_db"
    /\ arg' = {}
    /\ queried' = {}
    /\ result' = "Panic"
    /\ UNCHANGED <<label, save_path, strict_dupes, items, items_ptr, fs>>

\* dump_db that empties the table once its bytes are written.
dump_db_drains(io, pad) ==
    LET u8_dump == any_as_u8_slice(strict_dupes, items_ptr, Cardinality(items), pad)
        opened  == open_db_path(fs, save_path, io)
        path    == CHOOSE p \in save_path : TRUE
    IN  \E n \in 0..Len(u8_dump) :
        /\ Running
        /\ (io = "write_all") <=> (n < Len(u8_dump))
        /\ lastOp' = "dump_db"
        /\ arg' = {}
        /\ queried' = {}
        /\ IF opened.res # "Ok"
           THEN /\ fs' = opened.fs
                /\ result' = opened.res
                /\ items' = items
           ELSE /\ fs' = write_all(opened.fs, path, u8_dump, n)
                /\ result' = io_to_dberror(io = "write_all")
                /\ items' = IF io = "write_all" THEN items ELSE {}
        /\ UNCHANGED <<label, save_path, strict_dupes, items_ptr>>

\* Database::dump_db.  io is the call the environment makes fail, pad what the
\* read of the padding yields; a failing write_all gets any shorter prefix out.
dump_db(io, pad) ==
    LET u8_dump == any_as_u8_slice(strict_dupes, items_ptr, Cardinality(items), pad)
        opened  == open_db_path(fs, save_path, io)
        path    == CHOOSE p \in save_path : TRUE
    IN  \E n \in 0..Len(u8_dump) :
        /\ Running
        /\ (io = "write_all") <=> (n < Len(u8_dump))
        /\ lastOp' = "dump_db"
        /\ arg' = {}
        /\ queried' = {}
        /\ IF opened.res # "Ok"
           THEN /\ fs' = opened.fs
                /\ result' = opened.res
           ELSE /\ fs' = write_all(opened.fs, path, u8_dump, n)
                /\ result' = io_to_dberror(io = "write_all")
        /\ UNCHANGED <<label, save_path, strict_dupes, items, items_ptr>>

\* The history of dumps after a dump_db step: a dump that returned Ok leaves a
\* complete dump of the collection, one that failed leaves what it left of the file.
Dumped_after ==
    [p \in Paths |->
        IF save_path # {p} THEN dumped[p]
        ELSE IF result' = "Ok" THEN {items}
        ELSE IF fs'[p] = fs[p] THEN dumped[p]
        ELSE {}]

SavePaths == {{}} \cup {{p} : p \in Paths}

\* The table and its file system, under every host call and every I/O fault.
Next ==
    \/ \E l \in Labels, sp \in SavePaths, sd \in BOOLEAN :
           Database_new(l, sp, sd) /\ UNCHANGED <<dumped, twin>>
    \/ \E l \in Labels : set_label(l) /\ UNCHANGED <<dumped, twin>>
    \/ \E sp \in SavePaths : set_save_path(sp) /\ UNCHANGED <<dumped, twin>>
    \/ \E sd \in BOOLEAN : set_strict_dupes(sd) /\ UNCHANGED <<dumped, twin>>
    \/ \E item \in T : add_item(item) /\ UNCHANGED <<dumped, twin>>
    \/ \E item \in T : remove_item(item) /\ UNCHANGED <<dumped, twin>>
    \/ \E item \in T : query_item(item) /\ UNCHANGED <<dumped, twin>>
    \/ load_db /\ UNCHANGED <<dumped, twin>>
    \/ \E io \in IOFaults, pad \in PadBytes : dump_db(io, pad) /\ UNCHANGED <<dumped, twin>>

Spec == Init /\ [][Next]_vars

\* The same system with the history of dumps recorded.
NextRT ==
    \/ \E l \in Labels, sp \in SavePaths, sd \in BOOLEAN :
           Database_new(l, sp, sd) /\ UNCHANGED <<dumped, twin>>
    \/ \E l \in Labels : set_label(l) /\ UNCHANGED <<dumped, twin>>
    \/ \E sp \in SavePaths : set_save_path(sp) /\ UNCHANGED <<dumped, twin>>
    \/ \E sd \in BOOLEAN : set_strict_dupes(sd) /\ UNCHANGED <<dumped, twin>>
    \/ \E item \in T : add_item(item) /\ UNCHANGED <<dumped, twin>>
    \/ \E item \in T : remove_item(item) /\ UNCHANGED <<dumped, twin>>
    \/ \E item \in T : query_item(item) /\ UNCHANGED <<dumped, twin>>
    \/ load_db /\ UNCHANGED <<dumped, twin>>
    \/ \E io \in IOFaults, pad \in PadBytes : dump_db(io, pad) /\ dumped' = Dumped_after
                                                      /\ UNCHANGED twin

SpecRT == Init /\ [][NextRT]_vars

\* Database::add_item on a table given by its flag and its collection: the
\* collection it leaves and what it returns.
add_item_to(sd, s, item) ==
    IF sd /\ contains(s, item)
    THEN [items |-> s, result |-> "DupeFound"]
    ELSE [items |-> insert(s, item), result |-> "Ok"]

\* Database::remove_item on a table given by its collection.
remove_item_from(s, item) ==
    [items  |-> remove(s, item).set,
     result |-> IF remove(s, item).found THEN "Ok" ELSE "ItemNotFound"]

\* A strict table and a non-strict one, run on the same calls.
InitTwin == Init /\ strict_dupes

NextTwin ==
    \/ \E item \in T : /\ add_item(item)
                       /\ twin' = add_item_to(FALSE, twin.items, item)
                       /\ UNCHANGED dumped
    \/ \E item \in T : /\ remove_item(item)
                       /\ twin' = remove_item_from(twin.items, item)
                       /\ UNCHANGED dumped

SpecTwin == InitTwin /\ [][NextTwin]_vars

\* ================================================================ claims
\* The record a call was given.
TheArg == CHOOSE a \in arg : TRUE

\* C1: after any sequence of add_item, remove_item, query_item and dump_db
\* calls, under either value of strict_dupes and with the flag changed between
\* calls, no two records of the stored collection compare equal.
C1_NoEqualRecords ==
    \A a \in items : \A b \in items : T_eq(a, b) => a = b

\* C1 witness: a non-strict add_item of a record equal to, but different from,
\* a stored one has returned Ok, and two records are stored.
C1_Witness ==
    /\ lastOp = "add_item" /\ result = "Ok" /\ ~strict_dupes
    /\ arg # {} /\ ~(arg \subseteq items) /\ contains(items, TheArg)
    /\ Cardinality(items) = 2

\* C2: when strict_dupes is true and a record equal to the argument is stored,
\* add_item returns DupeFound and the collection is unchanged (same records,
\* same cardinality).
C2_StrictDupe ==
    [][(lastOp' = "add_item" /\ strict_dupes /\ contains(items, CHOOSE a \in arg' : TRUE))
         => (result' = "DupeFound" /\ items' = items
             /\ Cardinality(items') = Cardinality(items))]_vars

\* C2 witness: a strict add_item of a record equal to, but different from, a
\* stored one has returned DupeFound.
C2_Witness ==
    /\ lastOp = "add_item" /\ result = "DupeFound" /\ strict_dupes
    /\ arg # {} /\ ~(arg \subseteq items) /\ contains(items, TheArg)

\* C3: remove_item of a record for which no equal record is stored returns
\* ItemNotFound and leaves the collection unchanged.
C3_RemoveAbsent ==
    [][(lastOp' = "remove_item" /\ ~contains(items, CHOOSE a \in arg' : TRUE))
         => (result' = "ItemNotFound" /\ items' = items)]_vars

\* C3 witness: remove_item has returned ItemNotFound on a table that stores a
\* record, none of them equal to the argument.
C3_Witness ==
    /\ lastOp = "remove_item" /\ result = "ItemNotFound"
    /\ items # {} /\ arg # {} /\ ~contains(items, TheArg)

\* C4: remove_item of a record that is stored returns Ok, decreases the
\* cardinality by exactly one, leaves every other stored record in place, and
\* a query_item for the removed record right afterwards returns None.
C4_RemovePresent ==
    [][/\ (lastOp' = "remove_item" /\ contains(items, CHOOSE a \in arg' : TRUE))
           => /\ result' = "Ok"
              /\ Cardinality(items') = Cardinality(items) - 1
              /\ items' \subseteq items
              /\ \A r \in items : ~T_eq(r, CHOOSE a \in arg' : TRUE) => r \in items'
              /\ get(items', CHOOSE a \in arg' : TRUE) = {}
       /\ (lastOp = "remove_item" /\ result = "Ok" /\ lastOp' = "query_item" /\ arg' = arg)
           => (result' = "None" /\ queried' = {})]_vars

\* C4 witness: remove_item has returned Ok (a record equal to its argument was
\* stored), another record is still stored and none equal to the argument is.
C4_Witness ==
    /\ lastOp = "remove_item" /\ result = "Ok"
    /\ items # {} /\ arg # {} /\ ~contains(items, TheArg)

\* C5: add_item of a record for which no equal record is stored returns Ok
\* under either policy; afterwards query_item for that record returns it, the
\* cardinality has grown by exactly one, and every record stored before is
\* still present.
C5_AddAbsent ==
    [][/\ (lastOp' = "add_item" /\ ~contains(items, CHOOSE a \in arg' : TRUE))
           => /\ result' = "Ok"
              /\ get(items', CHOOSE a \in arg' : TRUE) = arg'
              /\ Cardinality(items') = Cardinality(items) + 1
              /\ items \subseteq items'
       /\ (lastOp = "add_item" /\ result = "Ok" /\ arg \subseteq items
             /\ lastOp' = "query_item" /\ arg' = arg)
           => (result' = "Some" /\ queried' = arg)]_vars

\* C5 witness: a strict add_item has returned Ok (so no equal record was
\* stored), on a table that stored a record before: the argument and the
\* earlier record are both stored.
C5_Witness ==
    /\ lastOp = "add_item" /\ result = "Ok" /\ strict_dupes
    /\ arg \subseteq items /\ Cardinality(items) = 2

\* The path of save_path when it is Some.
ThePath == CHOOSE p \in save_path : TRUE

\* What a call may return: success, an Option, or one of the error kinds.
Returns == {"Ok", "Some", "None"} \cup DatabaseError

\* C6: round-trip law: for any collection state, dumping a table to a path and
\* then loading from the same path into a fresh table of the same record type
\* yields a collection set-equal to the original.
C6_RoundTrip ==
    [][(/\ lastOp = "new" /\ items = {}
        /\ lastOp' = "load_db"
        /\ save_path # {} /\ dumped[ThePath] # {})
         => (result' = "Ok" /\ {items'} = dumped[ThePath])]_vars

\* C7: no operation panics or aborts in any reachable state: every call
\* returns either success or one of the DatabaseError kinds.
C7_NoPanic == result \in Returns

\* C8: load is all-or-nothing: if load_db fails for any reason, the in-memory
\* collection after the call is what it was before, and an error kind is
\* returned.
C8_LoadAllOrNothing ==
    [][(lastOp' = "load_db" /\ result' # "Ok")
         => (items' = items /\ result' \in DatabaseError)]_vars

C10_NoPathNoAccess ==
    [][(lastOp' \in {"dump_db", "load_db"} /\ save_path = {})
         => (result' = "SavePathRequired" /\ fs' = fs)]_vars

\* C11: a dump_db that fails with a file system error does not destroy the
\* snapshot persisted before: if a complete snapshot was at save_path before
\* the call and the call returns IOError, that snapshot is still there after.
C11_FailedDumpKeepsSnapshot ==
    [][(/\ lastOp' = "dump_db" /\ result' = "IOError"
        /\ save_path # {} /\ dumped[ThePath] # {})
         => (fs'[ThePath] = fs[ThePath] /\ dumped'[ThePath] = dumped[ThePath])]_vars

\* C12: in every reachable state, also after a dump_db that failed at any of
\* its steps, the file at a save path is either absent or a complete snapshot
\* written by one whole dump call; never an empty, truncated or partly
\* written file.
C12_AbsentOrComplete ==
    \A p \in Paths : fs[p].exists => dumped[p] # {}

\* The collections a table can hold.
Collections == {S \in SUBSET T : \A a \in S : \A b \in S : T_eq(a, b) => a = b}

\* The collections whose dump can be the byte sequence b.
DumpedFrom(b) ==
    {S \in Collections :
        \E sd \in BOOLEAN, ptr \in {StaticEmpty} \cup Addrs, pad \in PadBytes :
            any_as_u8_slice(sd, ptr, Cardinality(S), pad) = b}

\* C13: after a successful dump_db the file at save_path holds a complete
\* snapshot of exactly the records in memory at the moment of the call, in
\* place of whatever an earlier dump left there, and it stays that snapshot
\* while later add_item / remove_item calls change the collection in memory:
\* the bytes of the file are the dump of that collection and of no other.
C13_FileIsTheSnapshot ==
    \A p \in Paths : \A D \in dumped[p] :
        fs[p].exists /\ DumpedFrom(fs[p].bytes) = {D}

\* C14: query_item returns the stored instance when a record equal to the
\* argument is stored and None otherwise, and leaves the collection unchanged
\* in both cases.
C14_Query ==
    [][(lastOp' = "query_item")
         => LET a == CHOOSE x \in arg' : TRUE IN
            /\ items' = items
            /\ (\E r \in items : T_eq(r, a))
                 => (result' = "Some" /\ \E r \in items : T_eq(r, a) /\ queried' = {r})
            /\ (~\E r \in items : T_eq(r, a))
                 => (result' = "None" /\ queried' = {})]_vars

\* C14 witness: query_item has returned the stored instance, which is equal to
\* the argument and not identical to it.
C14_Witness ==
    /\ lastOp = "query_item" /\ result = "Some"
    /\ queried \subseteq items /\ queried # {} /\ queried # arg

\* C15: persistence is only ever explicit: add_item, remove_item and
\* query_item never create, remove or change a file, whether they succeed or
\* fail; the state on disk changes only inside a dump_db call.
C15_OnlyDumpTouchesDisk ==
    [][/\ (lastOp' \in {"add_item", "remove_item", "query_item"}) => fs' = fs
       /\ (fs' # fs) => lastOp' = "dump_db"]_vars

\* C15 witness: an add_item has succeeded on a table whose file holds the dump
\* of an earlier, smaller collection: the file is behind the memory.
C15_Witness ==
    /\ lastOp = "add_item" /\ result = "Ok" /\ save_path # {}
    /\ fs[ThePath].exists
    /\ \E pad \in PadBytes :
          fs[ThePath].bytes =
              any_as_u8_slice(strict_dupes, items_ptr, Cardinality(items) - 1, pad)

\* C16: when no explicit save_path is configured, dump_db saves the database
\* to the default file `<label>.tinydb`, derived from the current label,
\* instead of failing.
C16_DefaultPath ==
    [][(lastOp' = "dump_db" /\ save_path = {})
         => /\ result' # "SavePathRequired"
            /\ result' = "Ok" => fs'[DefaultPath(label)].exists]_vars

\* The equality classes of the records of a collection.
KeysOf(S) == {r.key : r \in S}

\* C17: when strict_dupes is false, add_item never returns an error; adding a
\* record equal to one already stored returns Ok and leaves the cardinality
\* and the set of stored records (under the equality relation) unchanged.
C17_NonStrictAdd ==
    [][(lastOp' = "add_item" /\ ~strict_dupes)
         => /\ result' = "Ok"
            /\ (\E r \in items : T_eq(r, CHOOSE a \in arg' : TRUE))
                 => /\ Cardinality(items') = Cardinality(items)
                    /\ KeysOf(items') = KeysOf(items)]_vars

\* C17 witness: a non-strict add_item of a record that was stored already has
\* returned Ok and the table still holds that one record only.
C17_Witness ==
    /\ lastOp = "add_item" /\ result = "Ok" /\ ~strict_dupes
    /\ arg # {} /\ contains(items, TheArg) /\ Cardinality(items) = 1

\* C18 as stated: under non-strict policy, add_item of a record equal to a
\* stored one replaces the stored instance: a query_item after the add returns
\* the newly added value, not the one stored before.
C18_Replaces ==
    [][(/\ lastOp = "add_item" /\ result = "Ok" /\ ~strict_dupes
        /\ lastOp' = "query_item" /\ arg' = arg)
         => queried' = arg]_vars

\* C18 amended: under non-strict policy, add_item of a record equal to a
\* stored one returns Ok and keeps the stored instance: the collection is
\* unchanged and a query_item after the add returns the value stored before.
C18_KeepsStored ==
    [][/\ (lastOp' = "add_item" /\ ~strict_dupes
             /\ \E r \in items : T_eq(r, CHOOSE a \in arg' : TRUE))
           => (result' = "Ok" /\ items' = items)
       /\ (/\ lastOp = "add_item" /\ result = "Ok" /\ ~strict_dupes
           /\ lastOp' = "query_item" /\ arg' = arg)
           => (queried' \subseteq items /\ items' = items /\ result' = "Some")]_vars

\* C18 witness: after a non-strict add_item that returned Ok, the stored
\* record equal to the argument is not the argument: the earlier value stayed.
C18_Witness ==
    /\ lastOp = "add_item" /\ result = "Ok" /\ ~strict_dupes
    /\ arg # {} /\ get(items, TheArg) # {} /\ get(items, TheArg) # arg

\* C19: dump_db never changes the in-memory table: whether it succeeds or
\* fails at any step, the stored collection, label, save_path and
\* strict_dupes after the call equal those before the call.
C19_DumpFrame ==
    [][(lastOp' = "dump_db")
         => (items' = items /\ label' = label /\ save_path' = save_path
             /\ strict_dupes' = strict_dupes)]_vars

\* C19 witness: a dump_db has returned Ok on a table that holds two records.
C19_Witness ==
    /\ lastOp = "dump_db" /\ result = "Ok" /\ Cardinality(items) = 2

\* C20: strict_dupes changes return values only, never contents: after every
\* step of the same sequence of add_item / remove_item calls, a strict and a
\* non-strict table hold the same set of records under the equality relation,
\* and their results differ only where the strict one returns DupeFound and
\* the non-strict one Ok.
C20_SameContents ==
    /\ KeysOf(items) = KeysOf(twin.items)
    /\ Cardinality(items) = Cardinality(twin.items)
    /\ \/ result = twin.result
       \/ result = "DupeFound" /\ twin.result = "Ok"

\* C20 witness: the strict table has returned DupeFound where the non-strict
\* one returned Ok, both holding two records.
C20_Witness ==
    /\ lastOp = "add_item" /\ result = "DupeFound" /\ twin.result = "Ok"
    /\ Cardinality(items) = 2 /\ Cardinality(twin.items) = 2

====
